---- MODULE Spec2Model ----
(***************************************************************************)
(* A model of the React URL shortener of src/src/App.jsx: the registry     *)
(* (App's urlMap state), the Creation view (Home), the Resolution view     *)
(* (Redirector) with its effect and its redirect timers, and the Listing   *)
(* view (Stats).                                                           *)
(*                                                                         *)
(* A JavaScript string is a sequence of one-character strings, so that the *)
(* regular expressions and parseInt are computed character by character.   *)
(* One action is one callback of the program (a submit handler, one run of *)
(* the Redirector effect, one timer callback) together with the re-render  *)
(* React performs for the state it set; the environment's actions are the  *)
(* clock and client-side navigation.                                       *)
(***************************************************************************)
EXTENDS Integers, Sequences, FiniteSets, TLC

VARIABLES
    urlMap,        \* App: useState({}), shortcode -> [originalUrl, expiry]
    route,         \* which <Route> element is mounted: "home", "stats", "redirector"
    code,          \* Redirector: useParams().code (<<>> when not mounted)
    originalUrl,   \* Home: the Long URL field
    customCode,    \* Home: the custom shortcode field
    validity,      \* Home: the validity field
    error,         \* Home: the inline error message, or null
    shortUrl,      \* Home: the shortened URL shown, or null
    message,       \* Redirector: the displayed message
    effectPending, \* Redirector: the effect is scheduled (its dependencies changed)
    timers,        \* pending setTimeout callbacks of the Redirector effect
    now,           \* Date.now()
    href,          \* window.location.href once a timer callback assigned it, or null
    lastCall       \* the callback that ran last, and what it logged last

vars == <<urlMap, route, code, originalUrl, customCode, validity, error,
          shortUrl, message, effectPending, timers, now, href, lastCall>>

-----------------------------------------------------------------------------
(* Bounds of the model *)

\* the pending timers tracked: the view is bound to a new code only below it
MaxTimers == 2

-----------------------------------------------------------------------------
(* Strings *)

Lower == {"a","b","c","d","e","f","g","h","i","j","k","l","m",
          "n","o","p","q","r","s","t","u","v","w","x","y","z"}
Upper == {"A","B","C","D","E","F","G","H","I","J","K","L","M",
          "N","O","P","Q","R","S","T","U","V","W","X","Y","Z"}
Digit == {"0","1","2","3","4","5","6","7","8","9"}

\* [a-zA-Z0-9_-]
CodeAlphabet == Lower \cup Upper \cup Digit \cup {"_", "-"}

\* the characters "." does not match
LineTerminators == {"\n", "\r"}

HasPrefix(s, p) == Len(s) >= Len(p) /\ SubSeq(s, 1, Len(p)) = p

\* the pattern without its ".+": a bare scheme passes
UrlMatchesNoRest(s) ==
    \/ HasPrefix(s, <<"h","t","t","p",":","/","/">>)
    \/ HasPrefix(s, <<"h","t","t","p","s",":","/","/">>)

\* originalUrl.match(/^https?:\/\/.+/)
UrlMatches(s) ==
    \E p \in {<<"h","t","t","p",":","/","/">>,
              <<"h","t","t","p","s",":","/","/">>} :
        /\ HasPrefix(s, p)
        /\ Len(s) > Len(p)
        /\ s[Len(p) + 1] \notin LineTerminators

\* /^[a-zA-Z0-9_-]{4,20}$/.test(customCode)
MinCodeLen == 4
MaxCodeLen == 20

CodeMatches(s) ==
    /\ Len(s) >= MinCodeLen
    /\ Len(s) <= MaxCodeLen
    /\ \A i \in 1..Len(s) : s[i] \in CodeAlphabet

-----------------------------------------------------------------------------
(* parseInt(validity) || 30 *)

NaN == [nan |-> TRUE, value |-> 0]
Num(n) == [nan |-> FALSE, value |-> n]

WhiteSpace == {" ", "\t", "\n", "\r"}

DigitValue(c) ==
    CASE c = "0" -> 0 [] c = "1" -> 1 [] c = "2" -> 2 [] c = "3" -> 3
      [] c = "4" -> 4 [] c = "5" -> 5 [] c = "6" -> 6 [] c = "7" -> 7
      [] c = "8" -> 8 [] c = "9" -> 9

RECURSIVE SkipWhiteSpace(_)
SkipWhiteSpace(s) ==
    IF s # <<>> /\ Head(s) \in WhiteSpace THEN SkipWhiteSpace(Tail(s)) ELSE s

\* the value of the longest prefix of decimal digits of s, from acc
RECURSIVE DigitsValue(_, _)
DigitsValue(s, acc) ==
    IF s # <<>> /\ Head(s) \in Digit
    THEN DigitsValue(Tail(s), 10 * acc + DigitValue(Head(s)))
    ELSE acc

\* parseInt(s) with no radix, for the values a number input can hold (no 0x prefix)
ParseInt(s) ==
    LET t == SkipWhiteSpace(s)
        neg == t # <<>> /\ Head(t) = "-"
        u == IF t # <<>> /\ Head(t) \in {"-", "+"} THEN Tail(t) ELSE t
    IN  IF u = <<>> \/ Head(u) \notin Digit
        THEN NaN
        ELSE Num(IF neg THEN 0 - DigitsValue(u, 0) ELSE DigitsValue(u, 0))

DefaultValidity == 30

\* const validityMinutes = parseInt(validity) || 30: NaN and 0 are falsy
ValidityMinutes(s) ==
    LET p == ParseInt(s)
    IN  IF p.nan \/ p.value = 0 THEN DefaultValidity ELSE p.value

-----------------------------------------------------------------------------
(* The inputs explored *)

UrlA == <<"h","t","t","p",":","/","/","a">>
UrlB == <<"h","t","t","p","s",":","/","/","b">>
FtpBad == <<"f","t","p",":","/","/","b","a","d">>
HttpNoRest == <<"h","t","t","p",":","/","/">>

Urls == {UrlA, UrlB, FtpBad, HttpNoRest, <<>>}

MyCode == <<"m","y","c","o","d","e">>
Generated == <<"V","1","S","t","G","X">>
ToStringKey == <<"t","o","S","t","r","i","n","g">>
TooShort == <<"a","b","c">>
BadChar == <<"m","y"," ","c","o","d","e">>
StatsPath == <<"s","t","a","t","s">>

\* what the user types into the custom shortcode field
CustomCodes == {<<>>, MyCode, ToStringKey, TooShort, BadChar}

\* what the user types into the validity field (a number input: a number or empty)
Validities == {<<>>, <<"1">>, <<"0">>, <<"-","5">>}

\* the path segments navigated to: "/" is <<>>
Paths == {<<>>, StatsPath, MyCode, Generated, ToStringKey}

\* window.location.origin
Origin == <<"h","t","t","p",":","/","/","o">>

\* the 6-character codes nanoid(6) is seen to return: one that the user also
\* types as a custom code, and one that only nanoid produces
NanoidLen == 6
NanoidPool == {s \in {MyCode, Generated} : Len(s) = NanoidLen}

MsPerMinute == 60 * 1000
RedirectDelay == 1000

\* the instants at which Date.now() is sampled: the page load, one minute
\* later, and 1 ms and one redirect delay after each
Offsets == {0, 1, RedirectDelay}
Instants == {m * MsPerMinute + o : m \in {0, 1}, o \in Offsets}
FirstMinute == {t \in Instants : t < MsPerMinute}

-----------------------------------------------------------------------------
(* JavaScript values *)

null == "null"
NoUrl == <<>>
UndefinedStr == <<"u","n","d","e","f","i","n","e","d">>

\* the messages, without the emoji the two Redirector messages begin with
InvalidUrlMsg == "URL must start with http:// or https://"
InvalidShortcodeMsg == "Custom shortcode must be 4-20 chars alphanumeric/_/-"
DuplicateShortcodeMsg == "Custom shortcode already exists"
RedirectingMsg == "Redirecting..."
NotFoundMsg == "Short URL not found."
ExpiredMsg == "This link has expired."

\* the property names every object literal inherits from Object.prototype
ObjectPrototypeKeys ==
    { <<"c","o","n","s","t","r","u","c","t","o","r">>,
      <<"t","o","S","t","r","i","n","g">>,
      <<"v","a","l","u","e","O","f">>,
      <<"_","_","p","r","o","t","o","_","_">> }

\* map[key] on a plain object: the own property, else the inherited one, else undefined
Lookup(map, key) ==
    IF key \in DOMAIN map
    THEN [kind |-> "record", originalUrl |-> map[key].originalUrl, expiry |-> map[key].expiry]
    ELSE IF key \in ObjectPrototypeKeys
         THEN [kind |-> "inherited", originalUrl |-> UndefinedStr, expiry |-> 0]
         ELSE [kind |-> "undefined", originalUrl |-> UndefinedStr, expiry |-> 0]

Truthy(v) == v.kind # "undefined"

-----------------------------------------------------------------------------
(* The registry owner (App) *)

EmptyMap == [k \in {} |-> [originalUrl |-> NoUrl, expiry |-> 0]]

Thrown(msg) == [threw |-> TRUE, message |-> msg, shortcode |-> <<>>]
Returned(c) == [threw |-> FALSE, message |-> "", shortcode |-> c]

\* nanoid(6) drawn once, with no redraw on a collision
NanoidAnyDraw(map) == NanoidPool

\* nanoid(6) redrawn while urlMap[newCode] is truthy: the codes the loop can end with
NanoidUntilFree(map) == {c \in NanoidPool : ~Truthy(Lookup(map, c))}

\* createShortCode without the check of the custom code
CreateShortCodeNoCheck(map, custom) ==
    IF custom # <<>>
    THEN {Returned(custom)}
    ELSE {Returned(c) : c \in NanoidUntilFree(map)}

\* createShortCode(customCode), reading the urlMap of the last render
CreateShortCode(map, custom) ==
    IF custom # <<>>
    THEN IF Truthy(Lookup(map, custom))
         THEN {Thrown(DuplicateShortcodeMsg)}
         ELSE {Returned(custom)}
    ELSE {Returned(c) : c \in NanoidUntilFree(map)}

\* the expiry with the minutes taken for seconds
ExpirySeconds(t, minutes) == t + minutes * 1000

\* Date.now() + validityMinutes * 60 * 1000
Expiry(t, minutes) == t + minutes * 60 * 1000

\* setUrlMap(prev => ({...prev, [shortcode]: {originalUrl, expiry}}))
Insert(prev, shortcode, url, expiry) ==
    [k \in DOMAIN prev \cup {shortcode} |->
        IF k = shortcode THEN [originalUrl |-> url, expiry |-> expiry] ELSE prev[k]]

\* `${window.location.origin}/${shortcode}`
ShortenedUrl(shortcode) == Origin \o <<"/">> \o shortcode

\* handleShorten with setUrlMap called before createShortCode has checked the code
HandleShortenInsertFirst(url, custom, minutes) ==
    { [threw |-> r.threw, message |-> r.message, shortcode |-> r.shortcode,
       urlMap |-> Insert(urlMap, IF r.threw THEN custom ELSE r.shortcode, url,
                         Expiry(now, minutes)),
       result |-> IF r.threw THEN NoUrl ELSE ShortenedUrl(r.shortcode)]
      : r \in CreateShortCode(urlMap, custom) }

\* handleShorten(originalUrl, customCode, validityMinutes): what it throws, or
\* the registry it sets and the URL it returns
HandleShorten(url, custom, minutes) ==
    { [threw |-> r.threw, message |-> r.message, shortcode |-> r.shortcode,
       urlMap |-> IF r.threw THEN urlMap
                  ELSE Insert(urlMap, r.shortcode, url, Expiry(now, minutes)),
       result |-> IF r.threw THEN NoUrl ELSE ShortenedUrl(r.shortcode)]
      : r \in CreateShortCode(urlMap, custom) }

\* a removal that resets the registry
RemoveExpiredAll(prev, c) == EmptyMap

\* removeExpired(code): setUrlMap(prev => { copy = {...prev}; delete copy[code] })
RemoveExpired(prev, c) == [k \in DOMAIN prev \ {c} |-> prev[k]]

-----------------------------------------------------------------------------
(* The state after the page load at "/" *)

Log(fn, msg) == [fn |-> fn, log |-> msg]

Init ==
    /\ urlMap = EmptyMap
    /\ route = "home"
    /\ code = <<>>
    /\ originalUrl = <<>>
    /\ customCode = <<>>
    /\ validity = <<>>
    /\ error = null
    /\ shortUrl = NoUrl
    /\ message = RedirectingMsg
    /\ effectPending = FALSE
    /\ timers = {}
    /\ now = 0
    /\ href = NoUrl
    /\ lastCall = Log("load", "")

\* the page is still loaded: no timer callback has assigned window.location.href
Loaded == href = NoUrl

-----------------------------------------------------------------------------
(* Creation view: Home *)

\* the user fills the three fields (onChange) and submits the form: handleSubmit.
\* The fields hold any sampled string: the constraints of the inputs (required,
\* type="url", min={1}) are the browser's and are not tested by handleSubmit.
HandleSubmit(url, custom, val) ==
    /\ Loaded
    /\ route = "home"
    /\ originalUrl' = url
    /\ customCode' = custom
    /\ validity' = val
    /\ IF ~UrlMatches(url)
       THEN /\ error' = InvalidUrlMsg
            /\ lastCall' = Log("handleSubmit", "Invalid URL format submitted")
            /\ UNCHANGED <<urlMap, shortUrl>>
       ELSE IF custom # <<>> /\ ~CodeMatches(custom)
       THEN /\ error' = InvalidShortcodeMsg
            /\ lastCall' = Log("handleSubmit", "Invalid custom shortcode")
            /\ UNCHANGED <<urlMap, shortUrl>>
       ELSE \E o \in HandleShorten(url, custom, ValidityMinutes(val)) :
              IF o.threw
              THEN /\ error' = o.message
                   /\ lastCall' = Log("handleSubmit", "Error creating short URL")
                   /\ urlMap' = o.urlMap
                   /\ UNCHANGED shortUrl
              ELSE /\ error' = null
                   /\ urlMap' = o.urlMap
                   /\ shortUrl' = o.result
                   /\ lastCall' = Log("handleSubmit", "Short URL created")
    /\ UNCHANGED <<route, code, message, effectPending, timers, now, href>>

-----------------------------------------------------------------------------
(* Routing: <Routes> with "/", "/stats" and "/:code" *)

\* the route a one-segment path matches: the static routes rank above "/:code"
RouteOf(path) ==
    IF path = <<>> THEN "home"
    ELSE IF path = StatsPath THEN "stats"
    ELSE "redirector"

\* a client-side navigation to "/" + path (history navigation: the views render
\* no router link, and a page load would start again from Init). A view that is left is unmounted and
\* loses its state; the Redirector stays mounted when only its code changes,
\* keeps its message, and its effect is scheduled because code changed.
Navigate(path) ==
    /\ Loaded
    /\ ~effectPending
    /\ \/ RouteOf(path) # route
       \/ RouteOf(path) = "redirector" /\ path # code
    /\ RouteOf(path) = "redirector" => Cardinality(timers) < MaxTimers
    /\ route' = RouteOf(path)
    /\ code' = IF RouteOf(path) = "redirector" THEN path ELSE <<>>
    /\ message' = IF RouteOf(path) = "redirector" /\ route = "redirector"
                  THEN message ELSE RedirectingMsg
    /\ effectPending' = (RouteOf(path) = "redirector")
    /\ IF route = "home"
       THEN /\ originalUrl' = <<>>
            /\ customCode' = <<>>
            /\ validity' = <<>>
            /\ error' = null
            /\ shortUrl' = NoUrl
       ELSE UNCHANGED <<originalUrl, customCode, validity, error, shortUrl>>
    /\ lastCall' = Log("navigate", "")
    /\ UNCHANGED <<urlMap, timers, now, href>>

-----------------------------------------------------------------------------
(* Resolution view: Redirector *)

\* the comparison with >= in place of >
IsExpiredAtOrAfter(record, t) == record.kind = "record" /\ t >= record.expiry

\* Date.now() > record.expiry; an inherited property has no expiry, and the
\* comparison with undefined is false
IsExpired(record, t) == record.kind = "record" /\ t > record.expiry

\* the callback setTimeout is given, and when it is due
Timer(record, t) == [dest |-> record.originalUrl, due |-> t + RedirectDelay]

\* one run of the effect of useEffect(..., [code, urlMap, removeExpired])
RedirectorEffect ==
    /\ Loaded
    /\ route = "redirector"
    /\ effectPending
    /\ LET record == Lookup(urlMap, code) IN
       IF ~Truthy(record)
       THEN /\ message' = NotFoundMsg
            /\ lastCall' = Log("effect", "Redirect failed: code not found")
            /\ effectPending' = FALSE
            /\ UNCHANGED <<urlMap, timers>>
       ELSE IF IsExpired(record, now)
       THEN /\ message' = ExpiredMsg
            /\ lastCall' = Log("effect", "Redirect failed: link expired")
            \* removeExpired sets a new urlMap: App renders again, and the new
            \* urlMap and removeExpired props schedule the effect again
            /\ urlMap' = RemoveExpired(urlMap, code)
            /\ effectPending' = TRUE
            /\ UNCHANGED timers
       ELSE /\ lastCall' = Log("effect", "Redirecting to original URL")
            /\ timers' = timers \cup {Timer(record, now)}
            /\ effectPending' = FALSE
            /\ UNCHANGED <<urlMap, message>>
    /\ UNCHANGED <<route, code, originalUrl, customCode, validity, error,
                   shortUrl, now, href>>

\* a setTimeout callback runs: window.location.href = record.originalUrl.
\* The effect returns no cleanup, so a timer stays pending whatever happens
\* to the view; the assignment unloads the page.
FireTimer(t) ==
    /\ Loaded
    /\ t \in timers
    /\ now >= t.due
    /\ href' = t.dest
    /\ timers' = timers \ {t}
    /\ lastCall' = Log("timeout", "")
    /\ UNCHANGED <<urlMap, route, code, originalUrl, customCode, validity,
                   error, shortUrl, message, effectPending, now>>

-----------------------------------------------------------------------------
(* Listing view: Stats *)

Max(a, b) == IF a >= b THEN a ELSE b

\* the minutes left with no lower limit: negative once expired
ExpiresInMinSigned(expiry, t) == (expiry - t) \div 60000

\* Math.max(0, Math.floor((expiry - Date.now()) / 60000))
ExpiresInMin(expiry, t) == Max(0, (expiry - t) \div 60000)

\* what Stats renders at instant t: the empty state when Object.keys(urlMap)
\* is empty, else one row for every entry
Stats(map, t) ==
    IF Cardinality(DOMAIN map) = 0
    THEN [empty |-> TRUE, rows |-> {}]
    ELSE [empty |-> FALSE,
          rows |-> {[code |-> k, originalUrl |-> map[k].originalUrl,
                     expiresInMin |-> ExpiresInMin(map[k].expiry, t)]
                    : k \in DOMAIN map}]

-----------------------------------------------------------------------------
(* The clock *)

Tick(t) ==
    /\ Loaded
    /\ t > now
    /\ now' = t
    /\ lastCall' = Log("tick", "")
    /\ UNCHANGED <<urlMap, route, code, originalUrl, customCode, validity,
                   error, shortUrl, message, effectPending, timers, href>>

-----------------------------------------------------------------------------

\* the whole application, with the forms that fill the registry
Submit == \E url \in {UrlA, UrlB}, custom \in {<<>>, MyCode} :
              HandleSubmit(url, custom, <<"1">>)
Go == \E path \in Paths : Navigate(path)
Fire == \E t \in timers : FireTimer(t)
Clock == \E t \in Instants : Tick(t)

Next == Submit \/ Go \/ RedirectorEffect \/ Fire \/ Clock

Spec == Init /\ [][Next]_vars

\* the Creation view alone, with every form
SubmitForm == \E url \in Urls, custom \in CustomCodes, val \in Validities :
                  HandleSubmit(url, custom, val)
ClockFirstMinute == \E t \in FirstMinute : Tick(t)

NextHome == SubmitForm \/ ClockFirstMinute

SpecHome == Init /\ [][NextHome]_vars

\* the whole application, with the custom codes that meet the route table
SubmitRoutes == \E custom \in {StatsPath, MyCode} :
                    HandleSubmit(UrlA, custom, <<"1">>)

NextRoutes == SubmitRoutes \/ Go \/ RedirectorEffect \/ Fire \/ Clock

SpecRoutes == Init /\ [][NextRoutes]_vars

-----------------------------------------------------------------------------
(* The claims. A step of a callback is told by lastCall', which every       *)
(* callback sets; the sampled inputs are classified here by hand, not by    *)
(* the operators of the model.                                              *)

\* the sampled URLs that match ^https?://.+ and those that do not
HttpUrls == {UrlA, UrlB}
NotHttpUrls == {FtpBad, HttpNoRest, <<>>}

\* the sampled custom codes that match ^[a-zA-Z0-9_-]{4,20}$
ValidCustomCodes == {MyCode, ToStringKey}

\* the sampled validity inputs that do not parse, or parse to zero or less
NotPositiveValidities == {<<>>, <<"0">>, <<"-","5">>}

SubmitStep == lastCall'.fn = "handleSubmit"
SubmitSucceeded == lastCall' = Log("handleSubmit", "Short URL created")
EffectStep == lastCall'.fn = "effect"

\* every entry of the registry is the same after the step
OthersUnchanged == \A k \in DOMAIN urlMap \cap DOMAIN urlMap' : urlMap'[k] = urlMap[k]

\* C1: a submit whose URL does not match ^https?://.+ fails with InvalidUrl,
\* whatever the custom code and the validity are, and leaves the registry as it was
C1_InvalidUrlRejected ==
    [][(SubmitStep /\ originalUrl' \in NotHttpUrls)
        => (error' = InvalidUrlMsg /\ urlMap' = urlMap)]_vars

C1_Witness ==
    /\ lastCall.fn = "handleSubmit"
    /\ originalUrl = FtpBad
    /\ customCode = MyCode
    /\ MyCode \in DOMAIN urlMap
    /\ error = InvalidUrlMsg

\* C2: a submit with a valid URL and a custom code that is a key of the
\* registry fails with DuplicateShortcode
C2_DuplicateRejected ==
    [][(SubmitStep /\ originalUrl' \in HttpUrls /\ customCode' \in ValidCustomCodes
          /\ customCode' \in DOMAIN urlMap)
        => (error' = DuplicateShortcodeMsg /\ urlMap' = urlMap)]_vars

C2_Witness ==
    /\ lastCall.fn = "handleSubmit"
    /\ originalUrl = UrlB
    /\ customCode = MyCode
    /\ MyCode \in DOMAIN urlMap
    /\ urlMap[MyCode].originalUrl = UrlA
    /\ error = DuplicateShortcodeMsg

\* C3: a submit with a valid URL and a valid custom code that is not a key of
\* the registry succeeds: no DuplicateShortcode, the code becomes a key as
\* supplied, and the short URL shown is origin + "/" + code
C3_FreshCustomCodeAccepted ==
    [][(SubmitStep /\ originalUrl' \in HttpUrls /\ customCode' \in ValidCustomCodes
          /\ customCode' \notin DOMAIN urlMap)
        => (/\ error' # DuplicateShortcodeMsg
            /\ customCode' \in DOMAIN urlMap'
            /\ shortUrl' = Origin \o <<"/">> \o customCode')]_vars

\* C4: a submit with a valid URL and no custom code returns a short URL whose
\* code has 6 characters and was not a key before, and replaces no record
C4_GeneratedCodeFresh ==
    [][(SubmitStep /\ originalUrl' \in HttpUrls /\ customCode' = <<>>)
        => (/\ \E c \in DOMAIN urlMap' \ DOMAIN urlMap :
                  /\ Len(c) = 6
                  /\ shortUrl' = Origin \o <<"/">> \o c
            /\ DOMAIN urlMap \subseteq DOMAIN urlMap'
            /\ OthersUnchanged)]_vars

C4_Witness ==
    /\ lastCall = Log("handleSubmit", "Short URL created")
    /\ customCode = <<>>
    /\ DOMAIN urlMap = {MyCode, Generated}
    /\ shortUrl = Origin \o <<"/">> \o Generated

\* C5: a successful submit at instant T adds exactly one key, whose record is
\* the URL submitted with expiry T + validityMinutes * 60000 (T + 1800000 for
\* the default of 30), changes no other entry, and shows origin + "/" + key
C5_InsertsOneRecord ==
    [][SubmitSucceeded
        => \E c \in DOMAIN urlMap' \ DOMAIN urlMap :
              /\ DOMAIN urlMap' = DOMAIN urlMap \cup {c}
              /\ OthersUnchanged
              /\ urlMap'[c].originalUrl = originalUrl'
              /\ urlMap'[c].expiry = now + ValidityMinutes(validity') * 60000
              /\ validity' = <<>> => urlMap'[c].expiry = now + 1800000
              /\ validity' = <<"1">> => urlMap'[c].expiry = now + 60000
              /\ shortUrl' = Origin \o <<"/">> \o c]_vars

C5_Witness ==
    /\ lastCall = Log("handleSubmit", "Short URL created")
    /\ validity = <<>>
    /\ now = 1
    /\ DOMAIN urlMap = {MyCode, Generated}
    /\ urlMap[MyCode] = [originalUrl |-> UrlA, expiry |-> 60000]
    /\ urlMap[Generated] = [originalUrl |-> UrlB, expiry |-> 1800001]

\* C6: a validity that does not parse, or parses to zero or less, is replaced
\* by 30 minutes, so every record inserted at instant T expires after T
C6_NonPositiveValidityDefaults ==
    [][SubmitSucceeded
        => \A c \in DOMAIN urlMap' \ DOMAIN urlMap :
              /\ urlMap'[c].expiry > now
              /\ validity' \in NotPositiveValidities
                    => urlMap'[c].expiry = now + 1800000]_vars

-----------------------------------------------------------------------------
(* Resolution *)

\* the codes shorten inserts: the custom code typed and the codes generated
ShortenedCodes == {MyCode, Generated}

\* C7: a record is expired if and only if now > expiry. An effect that finds
\* the record of its code with now <= expiry, now = expiry included, arms the
\* timer and requests no removal; with now > expiry it shows Expired and
\* removes the code
C7_ExpiryIsStrict ==
    [][(EffectStep /\ code \in DOMAIN urlMap)
        => IF now > urlMap[code].expiry
           THEN /\ message' = ExpiredMsg
                /\ code \notin DOMAIN urlMap'
                /\ timers' = timers
           ELSE /\ [dest |-> urlMap[code].originalUrl, due |-> now + 1000] \in timers'
                /\ message' = message
                /\ urlMap' = urlMap]_vars

C7_Witness ==
    /\ lastCall = Log("effect", "Redirecting to original URL")
    /\ code \in DOMAIN urlMap
    /\ urlMap[code].expiry = now
    /\ timers = {[dest |-> urlMap[code].originalUrl, due |-> now + 1000]}

\* C8: resolving a code whose record has expired shows Expired and removes
\* that key, leaving every other entry as it was; resolving a code of shorten
\* that is not in the registry shows NotFound, arms no timer and changes nothing
C8_ExpiredThenNotFound ==
    [][EffectStep
        => /\ (code \in DOMAIN urlMap /\ now > urlMap[code].expiry)
                => /\ message' = ExpiredMsg
                   /\ DOMAIN urlMap' = DOMAIN urlMap \ {code}
                   /\ OthersUnchanged
                   /\ timers' = timers
                   /\ effectPending'
           /\ (code \in ShortenedCodes /\ code \notin DOMAIN urlMap)
                => /\ message' = NotFoundMsg
                   /\ timers' = timers
                   /\ urlMap' = urlMap
                   /\ ~effectPending']_vars

\* the record of mycode, made at 0 for 1 minute, was resolved after 60000 and
\* removed, the other entry is in place, and the next resolution showed NotFound
C8_Witness ==
    /\ lastCall = Log("effect", "Redirect failed: code not found")
    /\ code = MyCode
    /\ now > 60000
    /\ message = NotFoundMsg
    /\ DOMAIN urlMap = {Generated}
    /\ timers = {}

\* C9: while the view stays on one code, a display of NotFound or Expired
\* does not change
C9_TerminalDisplays ==
    [][(route = "redirector" /\ route' = "redirector" /\ code' = code
          /\ message \in {NotFoundMsg, ExpiredMsg})
        => message' = message]_vars

\* the pending timers armed for a record of the registry
RecordTimers(ts) == {t \in ts : t.dest \in HttpUrls}

\* C10: at most one redirect timer is pending, and a timer that fires
\* navigates to the destination of the code the view is bound to (stated for
\* the timers armed for a record of the registry)
C10_SingleTimerOfCurrentCode ==
    [][/\ Cardinality(RecordTimers(timers')) <= 1
       /\ (lastCall'.fn = "timeout" /\ href' \in HttpUrls)
            => /\ route = "redirector"
               /\ code \in DOMAIN urlMap
               /\ href' = urlMap[code].originalUrl]_vars

\* C11: resolving a code that is not a key of the registry (never created,
\* removed, or a name such as "toString") shows NotFound, arms no timer and
\* requests no removal
C11_AbsentCodeNotFound ==
    [][(EffectStep /\ code \notin DOMAIN urlMap)
        => /\ message' = NotFoundMsg
           /\ timers' = timers
           /\ urlMap' = urlMap]_vars

\* C12: removeExpired(code) twice leaves the registry as removeExpired(code)
\* once does, on an absent code it changes nothing, and in both cases every
\* other key keeps its record
C12_RemoveExpiredIdempotent ==
    \A c \in Paths \ {<<>>} :
        LET once == RemoveExpired(urlMap, c) IN
        /\ RemoveExpired(once, c) = once
        /\ c \notin DOMAIN urlMap => once = urlMap
        /\ DOMAIN once = DOMAIN urlMap \ {c}
        /\ \A k \in DOMAIN urlMap \ {c} : once[k] = urlMap[k]

\* the effect has removed the expired mycode and the other entry is in place
C12_Witness ==
    /\ lastCall = Log("effect", "Redirect failed: link expired")
    /\ code = MyCode
    /\ DOMAIN urlMap = {Generated}

\* C13: an entry leaves the registry, or changes, only in a step of the
\* effect of the view bound to that code that finds now > expiry; every
\* other step keeps it, expired or not
C13_RemovedOnlyWhenResolvedExpired ==
    [][\A k \in DOMAIN urlMap :
          (k \notin DOMAIN urlMap' \/ urlMap'[k] # urlMap[k])
            => /\ EffectStep
               /\ route = "redirector"
               /\ code = k
               /\ now > urlMap[k].expiry
               /\ k \notin DOMAIN urlMap']_vars

\* mycode was resolved expired and removed, while the other record, expired
\* as well and resolved by nobody, is still there
C13_Witness ==
    /\ lastCall = Log("effect", "Redirect failed: link expired")
    /\ code = MyCode
    /\ MyCode \notin DOMAIN urlMap
    /\ Generated \in DOMAIN urlMap
    /\ now > urlMap[Generated].expiry

\* the sampled custom codes that do not match ^[a-zA-Z0-9_-]{4,20}$
InvalidCustomCodes == {TooShort, BadChar}

\* C14: a submit that fails, with InvalidUrl, InvalidShortcode or
\* DuplicateShortcode, leaves the registry as it was, and a submit that
\* succeeds after a failed one inserts its record and shows its short URL as
\* after no failure
C14_FailuresLeaveRegistry ==
    [][SubmitStep
        => /\ originalUrl' \in NotHttpUrls => error' = InvalidUrlMsg
           /\ (originalUrl' \in HttpUrls /\ customCode' \in InvalidCustomCodes)
                => error' = InvalidShortcodeMsg
           /\ (originalUrl' \in HttpUrls /\ customCode' \in DOMAIN urlMap)
                => error' = DuplicateShortcodeMsg
           /\ error' # null => urlMap' = urlMap
           /\ (error # null /\ error' = null)
                => \E c \in DOMAIN urlMap' \ DOMAIN urlMap :
                      /\ DOMAIN urlMap' = DOMAIN urlMap \cup {c}
                      /\ OthersUnchanged
                      /\ urlMap'[c].originalUrl = originalUrl'
                      /\ customCode' # <<>> => c = customCode'
                      /\ shortUrl' = Origin \o <<"/">> \o c]_vars

\* an invalid custom code was rejected with one record in the registry, whose
\* short URL is still shown
C14_Witness ==
    /\ lastCall = Log("handleSubmit", "Invalid custom shortcode")
    /\ customCode = TooShort
    /\ error = InvalidShortcodeMsg
    /\ DOMAIN urlMap = {MyCode}
    /\ shortUrl = Origin \o <<"/">> \o MyCode

\* C15: a key of the registry keeps its record, destination and expiry, in
\* every step that does not remove it: no shorten, custom or generated,
\* overwrites it
C15_NoOverwrite ==
    [][\A k \in DOMAIN urlMap :
          k \in DOMAIN urlMap'
            => /\ urlMap'[k].originalUrl = urlMap[k].originalUrl
               /\ urlMap'[k].expiry = urlMap[k].expiry]_vars

\* mycode was shortened again, one minute after it was made with another URL
\* and with a generated code beside it, and kept its record
C15_Witness ==
    /\ lastCall = Log("handleSubmit", "Error creating short URL")
    /\ customCode = MyCode
    /\ originalUrl = UrlB
    /\ DOMAIN urlMap = {MyCode, Generated}
    /\ urlMap[MyCode] = [originalUrl |-> UrlA, expiry |-> 60000]
    /\ now = 60000

\* C16: the Listing view shows the empty state for an empty registry and else
\* one row per entry, with max(0, floor((expiry - now) / 60000)) minutes: 0
\* for an entry that expires within the minute or has expired, never less
C16_RemainingMinutes ==
    route = "stats"
      => LET view == Stats(urlMap, now) IN
         /\ view.empty <=> DOMAIN urlMap = {}
         /\ {r.code : r \in view.rows} = DOMAIN urlMap
         /\ \A r \in view.rows :
               LET left == urlMap[r.code].expiry - now IN
               /\ r.originalUrl = urlMap[r.code].originalUrl
               /\ r.expiresInMin >= 0
               /\ left < 60000 => r.expiresInMin = 0
               /\ left >= 60000 => /\ r.expiresInMin * 60000 <= left
                                   /\ left < (r.expiresInMin + 1) * 60000

\* the Listing view is rendered with an entry that expired 1 ms ago and
\* another that has a whole minute left
C16_Witness ==
    /\ route = "stats"
    /\ lastCall.fn = "navigate"
    /\ \E k \in DOMAIN urlMap : urlMap[k].expiry = now - 1
    /\ \E k \in DOMAIN urlMap : urlMap[k].expiry = now + 60000

\* the view has resolved its code, whose record is in the registry, and the
\* timer armed for it is pending
ResolvedAndArmed ==
    /\ route = "redirector"
    /\ ~effectPending
    /\ code \in DOMAIN urlMap
    /\ \E t \in timers : t.dest = urlMap[code].originalUrl

TimeoutStep == lastCall'.fn = "timeout"

\* C17: once the view has resolved a code whose record is live and the code
\* does not change, the navigation goes to that record's destination and the
\* entry stays. The assignment of href unloads the page, so the first
\* navigation is the only one: stated for the navigations to a stored URL
C17_RedirectsToResolvedDestination ==
    [][(TimeoutStep /\ href' \in HttpUrls /\ ResolvedAndArmed)
        => /\ href' = urlMap[code].originalUrl
           /\ urlMap' = urlMap]_vars

\* C18: the display agrees with the pending action: when the view has armed
\* the timer for its code, whose record is in the registry, it displays
\* Redirecting, not NotFound or Expired
C18_DisplayAgreesWithTimer ==
    (Loaded /\ ResolvedAndArmed
        /\ lastCall = Log("effect", "Redirecting to original URL"))
      => message = RedirectingMsg

\* C19: a navigation to a stored URL happens only while a record
\* with that destination is unexpired at the instant of the navigation
C19_NoRedirectOnceExpired ==
    [][(TimeoutStep /\ href' \in HttpUrls)
        => \E k \in DOMAIN urlMap :
              /\ urlMap[k].originalUrl = href'
              /\ now <= urlMap[k].expiry]_vars

\* C20: every shortcode of the registry is resolvable: the path "/" + k of the
\* short URL is routed to the Resolution view, which binds code to k
C20_AcceptedCodesResolvable ==
    \A k \in DOMAIN urlMap : RouteOf(k) = "redirector"

====
